---- MODULE Spec2Model ----
(***************************************************************************)
(* Model of the PMO consultant bot (src/main.py): the per-user session     *)
(* map, the phase dispatch of get_response, the pattern extractor, the     *)
(* merge of the language model's extraction, the completion check, the     *)
(* submission builder and the webhook call.                                *)
(*                                                                         *)
(* Python strings are sequences of one-character strings, so that the      *)
(* substring tests and regular expressions of the source are computed      *)
(* rather than assumed.  Python values are records [t, n, s]: t is the     *)
(* type tag, n the integer value, s the string value.                      *)
(***************************************************************************)
EXTENDS Integers, Sequences, FiniteSets, TLC

VARIABLES conversation_states, turn, sent

vars == <<conversation_states, turn, sent>>

(***************************************************************************)
(* Bounds of the model.                                                    *)
(***************************************************************************)
\* The number of messages a user sends.
MaxSent == 5

(***************************************************************************)
(* Python values.                                                          *)
(***************************************************************************)
\* A key that is not in the dict.
Absent == [t |-> "absent", n |-> 0, s |-> <<>>]

\* None (JSON null).
PyNone == [t |-> "none", n |-> 0, s |-> <<>>]

PyInt(i) == [t |-> "int", n |-> i, s |-> <<>>]

PyStr(str) == [t |-> "str", n |-> 0, s |-> str]

\* bool(value): 0, "" and None are falsy.
Truthy(v) ==
    CASE v.t = "int" -> v.n # 0
      [] v.t = "str" -> v.s # <<>>
      [] OTHER -> FALSE

(***************************************************************************)
(* Characters and strings.                                                 *)
(***************************************************************************)
Digits == <<"0","1","2","3","4","5","6","7","8","9">>

DigitSet == {Digits[i] : i \in 1..10}

IsDigit(c) == c \in DigitSet

DigitVal(c) == (CHOOSE i \in 1..10 : Digits[i] = c) - 1

Uppers == <<"A","B","C","D","E","F","G","H","I","J","K","L","M","N","O","P","Q","R","S","T","U","V","W","X","Y","Z">>

Lowers == <<"a","b","c","d","e","f","g","h","i","j","k","l","m","n","o","p","q","r","s","t","u","v","w","x","y","z">>

UpperSet == {Uppers[i] : i \in 1..26}

LowerSet == {Lowers[i] : i \in 1..26}

IsUpper(c) == c \in UpperSet

IsLower(c) == c \in LowerSet

IsLetter(c) == IsUpper(c) \/ IsLower(c)

\* \w of the re module.
IsWordChar(c) == IsLetter(c) \/ IsDigit(c) \/ c = "_"

IsSpace(c) == c \in {" ", "\t", "\n"}

\* The lower-case letter of each upper-case letter.
ToLower == [c \in UpperSet |-> Lowers[CHOOSE i \in 1..26 : Uppers[i] = c]]

LowerChar(c) == IF IsUpper(c) THEN ToLower[c] ELSE c

\* str.lower()
Lower(str) == [i \in 1..Len(str) |-> LowerChar(str[i])]

\* sub in str
Contains(str, sub) ==
    \E i \in 1..(Len(str) - Len(sub) + 1) : SubSeq(str, i, i + Len(sub) - 1) = sub

\* str.strip()
Strip(str) ==
    LET keep == {i \in 1..Len(str) : ~IsSpace(str[i])}
    IN  IF keep = {} THEN <<>>
        ELSE LET lo == CHOOSE i \in keep : \A j \in keep : i <= j
                 hi == CHOOSE i \in keep : \A j \in keep : j <= i
             IN  SubSeq(str, lo, hi)

\* str.replace(',', '')
RemoveCommas(str) == SelectSeq(str, LAMBDA c : c # ",")

\* The value of a run of decimal digits.
RECURSIVE DigitsVal(_)
DigitsVal(ds) ==
    IF ds = <<>> THEN 0
    ELSE 10 * DigitsVal(SubSeq(ds, 1, Len(ds) - 1)) + DigitVal(ds[Len(ds)])

\* str(i) for an integer i >= 0
RECURSIVE NatToStr(_)
NatToStr(i) ==
    IF i < 10 THEN <<Digits[i + 1]>>
    ELSE NatToStr(i \div 10) \o <<Digits[(i % 10) + 1]>>

\* str(i)
IntToStr(i) == IF i < 0 THEN <<"-">> \o NatToStr(0 - i) ELSE NatToStr(i)

\* str(value)
PyToStr(v) ==
    CASE v.t = "int" -> IntToStr(v.n)
      [] v.t = "str" -> v.s
      [] OTHER -> <<"N","o","n","e">>

\* s[i] is a digit and s[i..j] is the longest run of digits starting at i.
RunEnd(str, i) ==
    CHOOSE j \in i..Len(str) :
        /\ \A k \in i..j : IsDigit(str[k])
        /\ (j = Len(str) \/ ~IsDigit(str[j + 1]))

(***************************************************************************)
(* The canned texts of the source.                                         *)
(***************************************************************************)
\* "What's the name of your program?"
Q_program_name ==
    <<"W","h","a","t","'","s"," ","t","h","e"," ","n","a","m","e"," ","o","f"," ","y","o","u","r"," ","p","r","o","g","r","a","m","?">>
\* "What's your name (as the program manager)?"
Q_program_manager ==
    <<"W","h","a","t","'","s"," ","y","o","u","r"," ","n","a","m","e"," ","(","a","s"," ","t","h","e"," ","p","r","o","g","r","a","m"," ","m","a","n","a","g","e","r",")","?">>
\* "What's your email address?"
Q_program_manager_email ==
    <<"W","h","a","t","'","s"," ","y","o","u","r"," ","e","m","a","i","l"," ","a","d","d","r","e","s","s","?">>
\* "Who is the executive sponsor for this program?"
Q_sponsor_name ==
    <<"W","h","o"," ","i","s"," ","t","h","e"," ","e","x","e","c","u","t","i","v","e"," ","s","p","o","n","s","o","r"," ","f","o","r"," ","t","h","i","s"," ","p","r","o","g","r","a","m","?">>
\* "What's the overall program status? (On Track / At Risk / Off Track)"
Q_overall_status ==
    <<"W","h","a","t","'","s"," ","t","h","e"," ","o","v","e","r","a","l","l"," ","p","r","o","g","r","a","m"," ","s","t","a","t","u","s","?"," ","(","O","n"," ","T","r","a","c","k"," ","/"," ","A","t"," ","R","i","s","k"," ","/"," ","O","f","f"," ","T","r","a","c","k",")">>
\* "Can you provide a brief commentary on the program status?"
Q_status_commentary ==
    <<"C","a","n"," ","y","o","u"," ","p","r","o","v","i","d","e"," ","a"," ","b","r","i","e","f"," ","c","o","m","m","e","n","t","a","r","y"," ","o","n"," ","t","h","e"," ","p","r","o","g","r","a","m"," ","s","t","a","t","u","s","?">>
\* "What are the key accomplishments so far?"
Q_key_accomplishments ==
    <<"W","h","a","t"," ","a","r","e"," ","t","h","e"," ","k","e","y"," ","a","c","c","o","m","p","l","i","s","h","m","e","n","t","s"," ","s","o"," ","f","a","r","?">>
\* "What are the upcoming milestones?"
Q_upcoming_milestones ==
    <<"W","h","a","t"," ","a","r","e"," ","t","h","e"," ","u","p","c","o","m","i","n","g"," ","m","i","l","e","s","t","o","n","e","s","?">>
\* "What's the total program budget? (just the number)"
Q_total_budget ==
    <<"W","h","a","t","'","s"," ","t","h","e"," ","t","o","t","a","l"," ","p","r","o","g","r","a","m"," ","b","u","d","g","e","t","?"," ","(","j","u","s","t"," ","t","h","e"," ","n","u","m","b","e","r",")">>
\* "How much of the budget has been spent so far?"
Q_budget_spent ==
    <<"H","o","w"," ","m","u","c","h"," ","o","f"," ","t","h","e"," ","b","u","d","g","e","t"," ","h","a","s"," ","b","e","e","n"," ","s","p","e","n","t"," ","s","o"," ","f","a","r","?">>
\* "How many open risks are there? (enter a number, or 0 if none)"
Q_open_risks ==
    <<"H","o","w"," ","m","a","n","y"," ","o","p","e","n"," ","r","i","s","k","s"," ","a","r","e"," ","t","h","e","r","e","?"," ","(","e","n","t","e","r"," ","a"," ","n","u","m","b","e","r",","," ","o","r"," ","0"," ","i","f"," ","n","o","n","e",")">>
\* "How many open issues? (enter a number, or 0 if none)"
Q_open_issues ==
    <<"H","o","w"," ","m","a","n","y"," ","o","p","e","n"," ","i","s","s","u","e","s","?"," ","(","e","n","t","e","r"," ","a"," ","n","u","m","b","e","r",","," ","o","r"," ","0"," ","i","f"," ","n","o","n","e",")">>
\* "How many assumptions? (enter a number, or 0 if none)"
Q_open_assumptions ==
    <<"H","o","w"," ","m","a","n","y"," ","a","s","s","u","m","p","t","i","o","n","s","?"," ","(","e","n","t","e","r"," ","a"," ","n","u","m","b","e","r",","," ","o","r"," ","0"," ","i","f"," ","n","o","n","e",")">>
\* "How many dependencies? (enter a number, or 0 if none)"
Q_open_dependencies ==
    <<"H","o","w"," ","m","a","n","y"," ","d","e","p","e","n","d","e","n","c","i","e","s","?"," ","(","e","n","t","e","r"," ","a"," ","n","u","m","b","e","r",","," ","o","r"," ","0"," ","i","f"," ","n","o","n","e",")">>
\* "Let me review what we have..."
Q_review ==
    <<"L","e","t"," ","m","e"," ","r","e","v","i","e","w"," ","w","h","a","t"," ","w","e"," ","h","a","v","e",".",".",".">>
\* "Could you provide more details?"
Q_default ==
    <<"C","o","u","l","d"," ","y","o","u"," ","p","r","o","v","i","d","e"," ","m","o","r","e"," ","d","e","t","a","i","l","s","?">>

\* The fixed welcome text of _handle_intro, as a token.
WELCOME == PyStr(<<"W","E","L","C","O","M","E">>)

(***************************************************************************)
(* Field schema.                                                           *)
(***************************************************************************)
\* required_fields of _handle_collection, in the order of the source.
required_fields ==
    <<"program_name", "program_manager", "program_manager_email",
      "sponsor_name", "update_date", "update_title",
      "key_accomplishments", "upcoming_milestones",
      "total_budget", "budget_spent",
      "overall_status", "status_commentary",
      "open_risks", "open_assumptions", "open_issues", "open_dependencies">>

RequiredSet == {required_fields[i] : i \in 1..Len(required_fields)}

\* Every key the data dict holds in this model.
Keys == RequiredSet \cup {"schedule_variance"}

\* "schedule_variance": 0, the data of a new or restarted session.
InitData == [k \in Keys |-> IF k = "schedule_variance" THEN PyInt(0) ELSE Absent]

\* key in data
Has(data, k) == data[k].t # "absent"

(***************************************************************************)
(* Regular expressions of _extract_simple_data.                            *)
(***************************************************************************)
\* \b between str[i] and str[i+1] (i = 0 is the start, i = Len the end).
Boundary(str, i) ==
    LET left  == i >= 1 /\ IsWordChar(str[i])
        right == i + 1 <= Len(str) /\ IsWordChar(str[i + 1])
    IN  left # right

\* [A-Za-z0-9._%+-]
InLocal(c) == IsLetter(c) \/ IsDigit(c) \/ c \in {".", "_", "%", "+", "-"}

\* [A-Za-z0-9.-]
InDomain(c) == IsLetter(c) \/ IsDigit(c) \/ c \in {".", "-"}

\* [A-Z|a-z]
InTld(c) == IsLetter(c) \/ c = "|"

\* The positions e at which a match of the email pattern starting at i can end.
EmailEnds(str, i) ==
    {e \in (i + 5)..Len(str) :
        /\ Boundary(str, i - 1)
        /\ Boundary(str, e)
        /\ \E a \in (i + 1)..(e - 4) :
              /\ str[a] = "@"
              /\ \A k \in i..(a - 1) : InLocal(str[k])
              /\ \E p \in (a + 2)..(e - 2) :
                    /\ str[p] = "."
                    /\ \A k \in (a + 1)..(p - 1) : InDomain(str[k])
                    /\ \A k \in (p + 1)..e : InTld(str[k])}

\* re.search of the email pattern: <<>> when there is no match, else
\* group(0) of the leftmost match, the greedy quantifiers taking the longest.
EmailMatch(str) ==
    LET starts == {i \in 1..Len(str) : EmailEnds(str, i) # {}}
    IN  IF starts = {} THEN <<>>
        ELSE LET i == CHOOSE x \in starts : \A y \in starts : x <= y
                 e == CHOOSE x \in EmailEnds(str, i) : \A y \in EmailEnds(str, i) : y <= x
             IN  SubSeq(str, i, e)

\* The starts of the matches of \b(\d+)\b.
StandaloneStarts(str) ==
    {i \in 1..Len(str) :
        /\ IsDigit(str[i])
        /\ Boundary(str, i - 1)
        /\ Boundary(str, RunEnd(str, i))}

\* number_match is not None
HasNumberMatch(str) == StandaloneStarts(str) # {}

\* int(number_match.group(1))
NumberMatch(str) ==
    LET i == CHOOSE x \in StandaloneStarts(str) : \A y \in StandaloneStarts(str) : x <= y
    IN  DigitsVal(SubSeq(str, i, RunEnd(str, i)))

\* [int(float(n)) for n in re.findall(r'\d+(?:,\d{3})*(?:\.\d+)?', str)] from
\* position i on, for a str without commas: int(float(n)) keeps the digits
\* before the decimal point.
RECURSIVE FindAllNumbers(_, _)
FindAllNumbers(str, i) ==
    IF i > Len(str) THEN <<>>
    ELSE IF ~IsDigit(str[i]) THEN FindAllNumbers(str, i + 1)
    ELSE LET j == RunEnd(str, i)
             frac == j + 2 <= Len(str) /\ str[j + 1] = "." /\ IsDigit(str[j + 2])
             next == IF frac THEN RunEnd(str, j + 2) + 1 ELSE j + 1
         IN  <<DigitsVal(SubSeq(str, i, j))>> \o FindAllNumbers(str, next)

(***************************************************************************)
(* _extract_simple_data                                                    *)
(***************************************************************************)
K_risk == <<"r","i","s","k">>

K_assumption == <<"a","s","s","u","m","p","t","i","o","n">>

K_issue == <<"i","s","s","u","e">>

K_dependenc == <<"d","e","p","e","n","d","e","n","c">>

K_budget == <<"b","u","d","g","e","t">>

K_total == <<"t","o","t","a","l">>

\* ["none", "zero", "no ", "0"]
ZeroWords ==
    {<<"n","o","n","e">>, <<"z","e","r","o">>, <<"n","o"," ">>, <<"0">>}

S_on_track == <<"o","n"," ","t","r","a","c","k">>

S_at_risk == <<"a","t"," ","r","i","s","k">>

S_off_track == <<"o","f","f"," ","t","r","a","c","k">>

L_On_Track == <<"O","n"," ","T","r","a","c","k">>

L_At_Risk == <<"A","t"," ","R","i","s","k">>

L_Off_Track == <<"O","f","f"," ","T","r","a","c","k">>

\* The email rule: the first match, unless the email is already in data.
ExtractEmail(data, message) ==
    IF EmailMatch(message) # <<>> /\ ~Has(data, "program_manager_email")
    THEN [data EXCEPT !["program_manager_email"] = PyStr(EmailMatch(message))]
    ELSE data

\* ExtractNumber with the "not in data" guard of the other rules.
ExtractNumber_guarded(data, q, message) ==
    IF Contains(q, K_risk) /\ HasNumberMatch(message)
    THEN IF Has(data, "open_risks") THEN data
         ELSE [data EXCEPT !["open_risks"] = PyInt(NumberMatch(message))]
    ELSE IF Contains(q, K_assumption) /\ HasNumberMatch(message)
    THEN IF Has(data, "open_assumptions") THEN data
         ELSE [data EXCEPT !["open_assumptions"] = PyInt(NumberMatch(message))]
    ELSE IF Contains(q, K_issue) /\ HasNumberMatch(message)
    THEN IF Has(data, "open_issues") THEN data
         ELSE [data EXCEPT !["open_issues"] = PyInt(NumberMatch(message))]
    ELSE IF Contains(q, K_dependenc) /\ HasNumberMatch(message)
    THEN IF Has(data, "open_dependencies") THEN data
         ELSE [data EXCEPT !["open_dependencies"] = PyInt(NumberMatch(message))]
    ELSE data

\* The if/elif chain that assigns the standalone number to a RAID count.
ExtractNumber(data, q, message) ==
    IF Contains(q, K_risk) /\ HasNumberMatch(message)
    THEN [data EXCEPT !["open_risks"] = PyInt(NumberMatch(message))]
    ELSE IF Contains(q, K_assumption) /\ HasNumberMatch(message)
    THEN [data EXCEPT !["open_assumptions"] = PyInt(NumberMatch(message))]
    ELSE IF Contains(q, K_issue) /\ HasNumberMatch(message)
    THEN [data EXCEPT !["open_issues"] = PyInt(NumberMatch(message))]
    ELSE IF Contains(q, K_dependenc) /\ HasNumberMatch(message)
    THEN [data EXCEPT !["open_dependencies"] = PyInt(NumberMatch(message))]
    ELSE data

\* One "if keyword in current_q and key not in data: data[key] = 0".
ZeroIfAsked(data, q, keyword, key) ==
    IF Contains(q, keyword) /\ ~Has(data, key)
    THEN [data EXCEPT ![key] = PyInt(0)]
    ELSE data

\* The "none", "zero", "no " and "0" answers.
ExtractZero(data, q, msg_lower) ==
    IF \E w \in ZeroWords : Contains(msg_lower, w)
    THEN LET d1 == ZeroIfAsked(data, q, K_risk, "open_risks")
             d2 == ZeroIfAsked(d1, q, K_assumption, "open_assumptions")
             d3 == ZeroIfAsked(d2, q, K_issue, "open_issues")
         IN  ZeroIfAsked(d3, q, K_dependenc, "open_dependencies")
    ELSE data

\* The budget numbers without the test for "total" in the message.
ExtractBudget_without_total(data, q, message, msg_lower) ==
    LET nums == FindAllNumbers(RemoveCommas(message), 1)
    IN  IF (Contains(q, K_budget) \/ Contains(msg_lower, K_budget)) /\ nums # <<>>
        THEN LET d1 == IF Len(nums) >= 1 /\ ~Has(data, "total_budget")
                       THEN [data EXCEPT !["total_budget"] = PyInt(nums[1])]
                       ELSE data
             IN  IF Len(nums) >= 2 /\ ~Has(d1, "budget_spent")
                 THEN [d1 EXCEPT !["budget_spent"] = PyInt(nums[2])]
                 ELSE d1
        ELSE data

\* The budget numbers.
ExtractBudget(data, q, message, msg_lower) ==
    LET nums == FindAllNumbers(RemoveCommas(message), 1)
    IN  IF (Contains(q, K_budget) \/ Contains(msg_lower, K_budget))
           /\ nums # <<>>
           /\ (Contains(msg_lower, K_total) \/ ~Has(data, "total_budget"))
        THEN LET d1 == IF Len(nums) >= 1 /\ ~Has(data, "total_budget")
                       THEN [data EXCEPT !["total_budget"] = PyInt(nums[1])]
                       ELSE data
             IN  IF Len(nums) >= 2 /\ ~Has(d1, "budget_spent")
                 THEN [d1 EXCEPT !["budget_spent"] = PyInt(nums[2])]
                 ELSE d1
        ELSE data

\* The status keywords.
ExtractStatus(data, msg_lower) ==
    IF Contains(msg_lower, S_on_track)
    THEN [data EXCEPT !["overall_status"] = PyStr(L_On_Track)]
    ELSE IF Contains(msg_lower, S_at_risk)
    THEN [data EXCEPT !["overall_status"] = PyStr(L_At_Risk)]
    ELSE IF Contains(msg_lower, S_off_track)
    THEN [data EXCEPT !["overall_status"] = PyStr(L_Off_Track)]
    ELSE data

\* state.get("current_question", "") or "", lowered; current_question is
\* None or a string in every state of this model (see TypeOK).
CurrentQ(state) ==
    IF Truthy(state.current_question) THEN Lower(state.current_question.s) ELSE <<>>

\* The data after _extract_simple_data(state, message).
extract_simple_data(state, message) ==
    LET msg_lower == Lower(message)
        q  == CurrentQ(state)
        d1 == ExtractEmail(state.data, message)
        d2 == ExtractNumber(d1, q, message)
        d3 == ExtractZero(d2, q, msg_lower)
        d4 == ExtractBudget(d3, q, message, msg_lower)
    IN  ExtractStatus(d4, msg_lower)

(***************************************************************************)
(* _get_claude_help                                                        *)
(***************************************************************************)
\* FallbackQuestion walking the RAID counts in the order of required_fields.
FallbackQuestion_required_order(current_data) ==
    IF ~Has(current_data, "program_name") THEN Q_program_name
    ELSE IF ~Has(current_data, "program_manager") THEN Q_program_manager
    ELSE IF ~Has(current_data, "program_manager_email") THEN Q_program_manager_email
    ELSE IF ~Has(current_data, "sponsor_name") THEN Q_sponsor_name
    ELSE IF ~Has(current_data, "overall_status") THEN Q_overall_status
    ELSE IF ~Has(current_data, "status_commentary") THEN Q_status_commentary
    ELSE IF ~Has(current_data, "key_accomplishments") THEN Q_key_accomplishments
    ELSE IF ~Has(current_data, "upcoming_milestones") THEN Q_upcoming_milestones
    ELSE IF ~Has(current_data, "total_budget") THEN Q_total_budget
    ELSE IF ~Has(current_data, "budget_spent") THEN Q_budget_spent
    ELSE IF ~Has(current_data, "open_risks") THEN Q_open_risks
    ELSE IF ~Has(current_data, "open_assumptions") THEN Q_open_assumptions
    ELSE IF ~Has(current_data, "open_issues") THEN Q_open_issues
    ELSE IF ~Has(current_data, "open_dependencies") THEN Q_open_dependencies
    ELSE Q_review

\* The except branch: the question for the first key that is not in data.
FallbackQuestion(current_data) ==
    IF ~Has(current_data, "program_name") THEN Q_program_name
    ELSE IF ~Has(current_data, "program_manager") THEN Q_program_manager
    ELSE IF ~Has(current_data, "program_manager_email") THEN Q_program_manager_email
    ELSE IF ~Has(current_data, "sponsor_name") THEN Q_sponsor_name
    ELSE IF ~Has(current_data, "overall_status") THEN Q_overall_status
    ELSE IF ~Has(current_data, "status_commentary") THEN Q_status_commentary
    ELSE IF ~Has(current_data, "key_accomplishments") THEN Q_key_accomplishments
    ELSE IF ~Has(current_data, "upcoming_milestones") THEN Q_upcoming_milestones
    ELSE IF ~Has(current_data, "total_budget") THEN Q_total_budget
    ELSE IF ~Has(current_data, "budget_spent") THEN Q_budget_spent
    ELSE IF ~Has(current_data, "open_risks") THEN Q_open_risks
    ELSE IF ~Has(current_data, "open_issues") THEN Q_open_issues
    ELSE IF ~Has(current_data, "open_assumptions") THEN Q_open_assumptions
    ELSE IF ~Has(current_data, "open_dependencies") THEN Q_open_dependencies
    ELSE Q_review

\* No key at all: "extracted_data": {}.
EmptyExtraction == [k \in Keys |-> Absent]

\* A JSON object {"extracted_data": ed, "next_question": nq}.
Extraction(ed, nq) ==
    [kind |-> "object", has_ed |-> TRUE, ed_is_map |-> TRUE, ed |-> ed,
     has_nq |-> TRUE, nq |-> nq]

\* What the model call can come to: the call raises ("error"), json.loads
\* raises ("unparsable"), or json.loads returns a JSON value: an object with
\* or without each of the two keys, a list, or null.
IsFailure(outcome) == outcome.kind \in {"error", "unparsable"}

\* The dict _get_claude_help returns for an outcome of the model call.
get_claude_help(current_data, outcome) ==
    IF IsFailure(outcome)
    THEN Extraction(EmptyExtraction, PyStr(FallbackQuestion(current_data)))
    ELSE outcome

(***************************************************************************)
(* _handle_collection after the model call                                 *)
(***************************************************************************)
\* ["unknown", "null", "none", "", "n/a"]
Sentinels ==
    {<<"u","n","k","n","o","w","n">>, <<"n","u","l","l">>, <<"n","o","n","e">>, <<>>, <<"n","/","a">>}

\* value and str(value).lower() not in [...]
Mergeable(value) == Truthy(value) /\ Lower(PyToStr(value)) \notin Sentinels

\* key not in state["data"] or not state["data"][key]
NotSet(data, key) == ~Has(data, key) \/ ~Truthy(data[key])

\* The loop over extracted_data.items().
Merge(data, ed) ==
    [k \in Keys |->
        IF Has(ed, k) /\ Mergeable(ed[k]) /\ NotSet(data, k) THEN ed[k] ELSE data[k]]

\* extraction_result and "extracted_data" in extraction_result
HasExtractedData(result) ==
    /\ result.kind = "object"
    /\ (result.has_ed \/ result.has_nq)
    /\ result.has_ed

\* extracted_data.items() raises when extracted_data is not a mapping.
MergeRaises(result) == HasExtractedData(result) /\ ~result.ed_is_map

\* missing_fields
MissingFields(data) == {f \in RequiredSet : ~Has(data, f) \/ ~Truthy(data[f])}

\* extraction_result.get raises when the result is not a dict.
GetRaises(result) == result.kind # "object"

\* extraction_result.get("next_question", "Could you provide more details?")
NextQuestion(result) == IF result.has_nq THEN result.nq ELSE PyStr(Q_default)

(***************************************************************************)
(* _prepare_submission                                                     *)
(***************************************************************************)
D_update_date == <<"2","0","2","4","-","1","0","-","2","3">>

D_update_title == <<"P","r","o","g","r","a","m"," ","U","p","d","a","t","e">>

D_Unknown == <<"U","n","k","n","o","w","n">>

D_None == <<"N","o","n","e">>

D_No_commentary == <<"N","o"," ","c","o","m","m","e","n","t","a","r","y">>

\* The two defaults written into data.
SetDefaults(data) ==
    LET d1 == IF ~Has(data, "update_date")
              THEN [data EXCEPT !["update_date"] = PyStr(D_update_date)] ELSE data
    IN  IF ~Has(d1, "update_title")
        THEN [d1 EXCEPT !["update_title"] = PyStr(D_update_title)] ELSE d1

\* data.get(key, default)
Get(data, key, default) == IF Has(data, key) THEN data[key] ELSE default

\* int(str) accepts an optional sign and decimal digits, surrounded by
\* whitespace.
IntLiteral(str) ==
    LET t == Strip(str)
        body == IF t # <<>> /\ t[1] \in {"+", "-"} THEN Tail(t) ELSE t
    IN  body # <<>> /\ \A i \in 1..Len(body) : IsDigit(body[i])

\* int(value) raises ValueError or TypeError.
IntRaises(v) ==
    CASE v.t = "int" -> FALSE
      [] v.t = "str" -> ~IntLiteral(v.s)
      [] OTHER -> TRUE

\* int(value) when it does not raise.
IntOf(v) ==
    IF v.t = "int" THEN v.n
    ELSE LET t == Strip(v.s)
         IN  IF t[1] = "-" THEN 0 - DigitsVal(Tail(t))
             ELSE IF t[1] = "+" THEN DigitsVal(Tail(t))
             ELSE DigitsVal(t)

\* The keys of webhook_data that go through int().
NumericKeys ==
    {"total_budget", "budget_spent",
     "open_risks", "open_assumptions", "open_issues", "open_dependencies"}

\* The keys of the raid_counts sub-object, and the data key of each.
RaidKeys == {"raid_risks", "raid_assumptions", "raid_issues", "raid_dependencies"}

RaidSource(k) ==
    CASE k = "raid_risks" -> "open_risks"
      [] k = "raid_assumptions" -> "open_assumptions"
      [] k = "raid_issues" -> "open_issues"
      [] k = "raid_dependencies" -> "open_dependencies"

PayloadKeys == Keys \cup RaidKeys

\* Building webhook_data raises if one of the int() calls does.
BuildRaises(data) == \E k \in NumericKeys : IntRaises(Get(data, k, PyInt(0)))

\* webhook_data
webhook_data(data) ==
    [k \in PayloadKeys |->
        CASE k \in NumericKeys -> PyInt(IntOf(Get(data, k, PyInt(0))))
          [] k \in RaidKeys -> PyInt(IntOf(Get(data, RaidSource(k), PyInt(0))))
          [] k = "schedule_variance" -> PyInt(0)
          [] k \in {"program_name", "program_manager", "sponsor_name"} ->
                Get(data, k, PyStr(D_Unknown))
          [] k = "program_manager_email" -> Get(data, k, PyStr(<<>>))
          [] k \in {"key_accomplishments", "upcoming_milestones"} ->
                Get(data, k, PyStr(D_None))
          [] k = "overall_status" -> Get(data, k, PyStr(L_On_Track))
          [] k = "status_commentary" -> Get(data, k, PyStr(D_No_commentary))
          [] OTHER -> Get(data, k, PyNone)]

\* No payload was built.
NoPayload == [k \in PayloadKeys |-> Absent]

(***************************************************************************)
(* Sessions and turns.                                                     *)
(***************************************************************************)
Users == {"u1", "u2"}

\* The turns of one user that can be in flight at once.
Slots == {1, 2}

\* The slot of the turns of a user who waits for each reply.
FirstSlot == {1}

\* The value get_response stores for a new user; conversation_history is
\* only appended to and cleared, and the model keeps its length.
NewSession ==
    [phase |-> "intro", data |-> InitData, conversation_history |-> 0,
     current_question |-> PyNone]

NoOutcome ==
    [kind |-> "none", has_ed |-> FALSE, ed_is_map |-> FALSE, ed |-> EmptyExtraction,
     has_nq |-> FALSE, nq |-> Absent]

NoReply == [kind |-> "none", text |-> Absent]

Reply(kind, text) == [kind |-> kind, text |-> text]

\* A turn: pc is where get_response stands ("idle": not running, "model":
\* suspended in stream_request, "webhook": suspended in client.post); while
\* it runs, message is its local user_message and prior the data as the turn
\* found it.  The other fields record
\* the last turn for the properties: the branch of get_response it took,
\* whether it created the session, whether _get_claude_help took its except
\* branch, whether the completion check ran and the missing_fields it
\* computed, the reply yielded, whether an exception left get_response, the
\* webhook_data built, the number of calls of _submit_to_webhook and what
\* client.post came to.  current_data is the local of _get_claude_help: it
\* is the dict state["data"] itself (EmptyExtraction here) until
\* _handle_completion binds state["data"] to a new dict, and from then on the
\* old dict with the content it had.
IdleTurn ==
    [pc |-> "idle", branch |-> "none", message |-> <<>>, prior |-> InitData,
     created |-> FALSE, fallback |-> FALSE, checked |-> FALSE, missing |-> {},
     reply |-> NoReply, raised |-> FALSE, payload |-> NoPayload, posts |-> 0,
     response |-> "none", current_data |-> EmptyExtraction]

\* No session, no turn, and no message sent yet.
Init ==
    /\ conversation_states = [u \in {} |-> NewSession]
    /\ turn = [u \in Users |-> [k \in Slots |-> IdleTurn]]
    /\ sent = [u \in Users |-> 0]

\* conversation_states[user_id] after the "new user" test.
StateOf(u) ==
    IF u \in DOMAIN conversation_states THEN conversation_states[u] ELSE NewSession

\* state["conversation_history"].append(...); the length is kept up to
\* MaxSent.
AppendHistory(state) ==
    [state EXCEPT !.conversation_history = IF @ < MaxSent THEN @ + 1 ELSE @]

\* Store with one session object for all the users.
Store_one_for_all(u, state) ==
    [v \in DOMAIN conversation_states \cup {u} |-> state]

\* conversation_states with the session of u replaced (or created).
Store(u, state) ==
    [v \in DOMAIN conversation_states \cup {u} |->
        IF v = u THEN state ELSE conversation_states[v]]

\* u sends a message and its turn starts: no other turn of u is running.
CanBegin(u, k) ==
    /\ \A j \in Slots : turn[u][j].pc = "idle"
    /\ sent[u] < MaxSent
    /\ sent' = [sent EXCEPT ![u] = @ + 1]

\* The record of a turn that starts.
Started(u, branch, message) ==
    [IdleTurn EXCEPT !.branch = branch, !.message = message,
                     !.created = (u \notin DOMAIN conversation_states)]

\* handle_intro without the assignment of the phase.
handle_intro_stays(state) == state

\* _handle_intro
handle_intro(state) == [state EXCEPT !.phase = "collecting"]

\* handle_completion without the reset of the data.
handle_completion_keeps_data(state) ==
    handle_intro([state EXCEPT !.phase = "intro", !.conversation_history = 0])

\* _handle_completion
handle_completion(state) ==
    handle_intro([state EXCEPT !.phase = "intro", !.data = InitData,
                               !.conversation_history = 0])

\* get_response in the intro phase.
Intro(u, k, raw) ==
    /\ StateOf(u).phase = "intro"
    /\ conversation_states' = Store(u, handle_intro(AppendHistory(StateOf(u))))
    /\ turn' = [turn EXCEPT ![u][k] =
                  [Started(u, "intro", Strip(raw)) EXCEPT !.reply = Reply("welcome", WELCOME)]]

\* get_response in the complete phase.
Complete(u, k, raw) ==
    /\ StateOf(u).phase = "complete"
    /\ conversation_states' = Store(u, handle_completion(AppendHistory(StateOf(u))))
    /\ turn' = [turn EXCEPT ![u] = [j \in Slots |->
                  IF j = k
                  THEN [Started(u, "complete", Strip(raw)) EXCEPT
                           !.reply = Reply("welcome", WELCOME)]
                  ELSE IF turn[u][j].pc = "model" /\ turn[u][j].current_data = EmptyExtraction
                  THEN [turn[u][j] EXCEPT !.current_data = StateOf(u).data]
                  ELSE turn[u][j]]]

\* get_response in the collecting phase, up to the model call:
\* _handle_collection runs the pattern extractor and _get_claude_help awaits
\* stream_request.
Collecting(u, k, raw) ==
    /\ StateOf(u).phase = "collecting"
    /\ LET state == AppendHistory(StateOf(u))
           data  == extract_simple_data(state, Strip(raw))
       IN  /\ conversation_states' = Store(u, [state EXCEPT !.data = data])
           /\ turn' = [turn EXCEPT ![u][k] =
                         [Started(u, "collecting", Strip(raw)) EXCEPT
                             !.pc = "model", !.prior = StateOf(u).data]]

\* The turns of a user who sends the next message when the reply has come.
IntroTurn(u, k, raw) == CanBegin(u, k) /\ Intro(u, k, raw)

CompleteTurn(u, k, raw) == CanBegin(u, k) /\ Complete(u, k, raw)

CollectingTurn(u, k, raw) == CanBegin(u, k) /\ Collecting(u, k, raw)

\* The turn ends: t is its record but for pc and the locals.
Ended(u, k, t) ==
    turn' = [turn EXCEPT ![u][k] = [t EXCEPT !.pc = "idle", !.message = <<>>, !.prior = InitData,
                                             !.current_data = EmptyExtraction]]

\* _handle_collection from the return of the model call: the merge, the
\* completion check, and the question or the start of the submission.
\* fp.PartialResponse(text=next_q) raises for a next_q that is not a string,
\* after current_question was assigned.
ModelReturns(u, k, outcome) ==
    /\ turn[u][k].pc = "model"
    /\ UNCHANGED sent
    /\ LET state   == conversation_states[u]
           t       == [turn[u][k] EXCEPT !.fallback = IsFailure(outcome)]
           current_data == IF turn[u][k].current_data = EmptyExtraction
                           THEN state.data ELSE turn[u][k].current_data
           result  == get_claude_help(current_data, outcome)
           merged  == IF HasExtractedData(result)
                      THEN Merge(state.data, result.ed) ELSE state.data
           next_q  == NextQuestion(result)
           c       == [t EXCEPT !.checked = TRUE, !.missing = MissingFields(merged)]
           done    == [state EXCEPT !.phase = "complete", !.data = SetDefaults(merged)]
       IN  IF MergeRaises(result)
           THEN /\ Ended(u, k, [t EXCEPT !.raised = TRUE])
                /\ UNCHANGED conversation_states
           ELSE IF MissingFields(merged) = {}
           THEN /\ conversation_states' = Store(u, done)
                /\ IF BuildRaises(done.data)
                   THEN Ended(u, k, [c EXCEPT !.raised = TRUE])
                   ELSE turn' = [turn EXCEPT ![u][k] =
                                   [c EXCEPT !.pc = "webhook", !.prior = InitData,
                                             !.current_data = EmptyExtraction,
                                             !.payload = webhook_data(done.data),
                                             !.posts = @ + 1]]
           ELSE IF GetRaises(result)
           THEN /\ conversation_states' = Store(u, [state EXCEPT !.data = merged])
                /\ Ended(u, k, [c EXCEPT !.raised = TRUE])
           ELSE /\ conversation_states' =
                      Store(u, [state EXCEPT !.data = merged, !.current_question = next_q])
                /\ IF next_q.t = "str"
                   THEN Ended(u, k, [c EXCEPT !.reply = Reply("question", next_q)])
                   ELSE Ended(u, k, [c EXCEPT !.raised = TRUE])

\* What client.post can come to: a status code, or an exception.
WebhookOutcomes == {"200", "500", "exception"}

\* _submit_to_webhook taking every status code for a success.
submit_to_webhook_any_status(response) == response # "exception"

\* _submit_to_webhook
submit_to_webhook(response) == response = "200"

\* _prepare_submission from the return of client.post.
WebhookReturns(u, k, response) ==
    /\ turn[u][k].pc = "webhook"
    /\ UNCHANGED <<conversation_states, sent>>
    /\ IF submit_to_webhook(response)
       THEN Ended(u, k, [turn[u][k] EXCEPT
                !.response = response,
                !.reply = Reply("summary", turn[u][k].payload["program_manager_email"])])
       ELSE Ended(u, k, [turn[u][k] EXCEPT
                !.response = response, !.reply = Reply("webhook_error", Absent)])

(***************************************************************************)
(* The inputs of the model.                                                *)
(***************************************************************************)
Messages ==
    {<<"h","e","l","l","o"," ">>,
     <<"0">>,
     <<"5"," ","r","i","s","k","s">>,
     <<"1","0">>,
     <<"n","o","n","e">>,
     <<"j","a","n","e","@","x",".","c","o","m">>}

Q_model_risks == <<"H","o","w"," ","m","a","n","y"," ","o","p","e","n"," ","r","i","s","k","s"," ","a","r","e"," ","t","h","e","r","e","?">>

ED(f) == [k \in Keys |-> IF k \in DOMAIN f THEN f[k] ELSE Absent]

\* The twelve fields that are not RAID counts.
ED_core ==
    ED("program_name" :> PyStr(<<"A","p","o","l","l","o">>) @@
       "program_manager" :> PyStr(<<"J","a","n","e">>) @@
       "program_manager_email" :> PyStr(<<"j","@","x",".","o","r","g">>) @@
       "sponsor_name" :> PyStr(<<"M","i","k","e">>) @@
       "update_date" :> PyStr(<<"2","0","2","4","-","1","0","-","2","3">>) @@
       "update_title" :> PyStr(<<"Q","4">>) @@
       "key_accomplishments" :> PyStr(<<"k","i","c","k","o","f","f">>) @@
       "upcoming_milestones" :> PyStr(<<"r","e","v","i","e","w">>) @@
       "total_budget" :> PyInt(500000) @@
       "budget_spent" :> PyStr(<<" ","2","0","0","0","0","0"," ">>) @@
       "overall_status" :> PyStr(L_At_Risk) @@
       "status_commentary" :> PyStr(<<"l","a","t","e">>))

\* The four RAID counts.
ED_raid ==
    ED("open_risks" :> PyInt(3) @@ "open_assumptions" :> PyInt(1) @@
       "open_issues" :> PyInt(2) @@ "open_dependencies" :> PyStr(<<"4">>))

\* A budget that is not a number.
ED_bad_budget == ED("total_budget" :> PyStr(<<"n","o","t"," ","a"," ","n","u","m","b","e","r">>))

\* Values the merge skips.
ED_sentinels ==
    ED("program_name" :> PyStr(<<"U","n","k","n","o","w","n">>) @@
       "sponsor_name" :> PyStr(<<"N","/","A">>) @@
       "update_title" :> PyStr(<<"n","o","n","e">>) @@
       "update_date" :> PyStr(<<"N","U","L","L">>) @@
       "status_commentary" :> PyNone @@
       "key_accomplishments" :> PyStr(<<>>) @@
       "open_issues" :> PyInt(0))

ModelOutcomes ==
    {[NoOutcome EXCEPT !.kind = "error"],
     [NoOutcome EXCEPT !.kind = "unparsable"],
     [NoOutcome EXCEPT !.kind = "list"],
     [NoOutcome EXCEPT !.kind = "null"],
     [NoOutcome EXCEPT !.kind = "object"],
     [NoOutcome EXCEPT !.kind = "object", !.has_ed = TRUE],
     [Extraction(ED_bad_budget, Absent) EXCEPT !.has_nq = FALSE],
     Extraction(ED_core, PyStr(Q_model_risks)),
     Extraction(ED_raid, PyStr(Q_model_risks)),
     Extraction(ED_sentinels, PyNone)}

(***************************************************************************)
(* The specification: the turns of one user, one after another.            *)
(***************************************************************************)
SpecUsers == {"u1"}

Next ==
    \/ \E u \in SpecUsers, k \in FirstSlot, raw \in Messages : IntroTurn(u, k, raw)
    \/ \E u \in SpecUsers, k \in FirstSlot, raw \in Messages : CollectingTurn(u, k, raw)
    \/ \E u \in SpecUsers, k \in FirstSlot, raw \in Messages : CompleteTurn(u, k, raw)
    \/ \E u \in SpecUsers, k \in FirstSlot, outcome \in ModelOutcomes : ModelReturns(u, k, outcome)
    \/ \E u \in SpecUsers, k \in FirstSlot, response \in WebhookOutcomes : WebhookReturns(u, k, response)

Spec == Init /\ [][Next]_vars

TypeOK ==
    /\ DOMAIN conversation_states \subseteq Users
    /\ \A u \in DOMAIN conversation_states :
          /\ conversation_states[u].phase \in {"intro", "collecting", "complete"}
          /\ conversation_states[u].current_question.t \in {"none", "str"}
          /\ conversation_states[u].conversation_history \in 0..sent[u]

(***************************************************************************)
(* Properties.                                                             *)
(***************************************************************************)
\* The users that have a session.
Active == DOMAIN conversation_states

\* The step is the return of the model call in a turn of u: the merge, the
\* completion check and what follows.
MergeStep(u) == turn[u][1].pc = "model" /\ turn'[u][1].pc # "model"

\* The step is the start of a Collecting turn of u: the pattern extractor.
PatternStep(u) == turn[u][1].pc = "idle" /\ turn'[u][1].pc = "model"

\* The "present" predicate of the field schema: non-empty, non-null and not a
\* sentinel word; an integer count that was set is present, 0 included.
SentinelWords ==
    {<<"u","n","k","n","o","w","n">>, <<"n","u","l","l">>, <<"n","o","n","e">>, <<"n","/","a">>}

Present(v) ==
    /\ v.t \notin {"absent", "none"}
    /\ v.t = "str" => (v.s # <<>> /\ Lower(v.s) \notin SentinelWords)

\* C1: once a field is set in the collected data, the merge step of a
\* Collecting turn leaves it as it is, whatever the model extracted.
C1_MergeKeepsSetFields ==
    [][\A u \in Active :
          MergeStep(u) =>
             \A f \in Keys :
                Has(conversation_states[u].data, f) =>
                   conversation_states'[u].data[f] = conversation_states[u].data[f]]_vars

\* C2: a Collecting turn (here: one that no exception ends) moves to Complete
\* if and only if every required field is present after the merge, and
\* otherwise stays in Collecting and replies with a non-empty question.
C2_CompleteIffAllPresent ==
    [][\A u \in Active :
          (MergeStep(u) /\ ~turn'[u][1].raised) =>
             LET after == conversation_states'[u]
                 all   == \A f \in RequiredSet : Present(after.data[f])
             IN  /\ (after.phase = "complete") <=> all
                 /\ ~all => /\ after.phase = "collecting"
                            /\ turn'[u][1].reply.kind = "question"
                            /\ turn'[u][1].reply.text.s # <<>>]_vars

\* C3: the completion check counts a required field as collected if and only
\* if its value is present: a count of 0 is collected, a sentinel word is not.
C3_CollectedIffPresent ==
    \A u \in Active :
       turn[u][1].checked =>
          \A f \in RequiredSet :
             (f \notin turn[u][1].missing) <=> Present(conversation_states[u].data[f])

\* C4: a turn that finds the session in Complete leaves the data as in a new
\* session and the phase at Collecting, replies with the welcome text, and
\* runs neither the extraction, nor the model call, nor the webhook call.
C4_RestartFromComplete ==
    \A u \in Active :
       turn[u][1].branch = "complete" =>
          /\ conversation_states[u].data = InitData
          /\ conversation_states[u].phase = "collecting"
          /\ turn[u][1].reply = Reply("welcome", WELCOME)
          /\ turn[u][1].pc = "idle"
          /\ ~turn[u][1].fallback /\ ~turn[u][1].checked /\ ~turn[u][1].raised
          /\ turn[u][1].posts = 0 /\ turn[u][1].payload = NoPayload

C4_Witness ==
    \E u \in Active :
       /\ turn[u][1].branch = "complete"
       /\ turn[u][1].reply = Reply("welcome", WELCOME)
       /\ conversation_states[u].phase = "collecting"
       /\ conversation_states[u].data = InitData
       /\ conversation_states[u].current_question # PyNone

\* C5: a turn that finds the session in Intro (a new user's session is
\* created in Intro with no required field) sets the phase to Collecting and
\* replies with the welcome text; data and current_question stay as they
\* were, and neither the model nor the webhook is called.
C5_IntroTurn ==
    [][\A u \in Users :
          (StateOf(u).phase = "intro" /\ turn'[u] # turn[u]) =>
             /\ u \notin Active =>
                   \A f \in RequiredSet : ~Has(StateOf(u).data, f)
             /\ u \in DOMAIN conversation_states'
             /\ conversation_states'[u].phase = "collecting"
             /\ conversation_states'[u].data = StateOf(u).data
             /\ conversation_states'[u].current_question = StateOf(u).current_question
             /\ turn'[u][1].reply = Reply("welcome", WELCOME)
             /\ turn'[u][1].pc = "idle"
             /\ ~turn'[u][1].fallback /\ ~turn'[u][1].raised
             /\ turn'[u][1].posts = 0]_vars

C5_Witness ==
    \E u \in Active :
       /\ turn[u][1].branch = "intro"
       /\ turn[u][1].created
       /\ turn[u][1].reply = Reply("welcome", WELCOME)
       /\ conversation_states[u].phase = "collecting"
       /\ conversation_states[u].data = InitData

\* C6: when the completion check finds nothing missing, the submission is
\* built whatever the numeric values are: a value that is not a number
\* becomes 0 in the payload, the webhook is called and the turn replies.
C6_CoercionNeverFails ==
    \A u \in Active :
       (turn[u][1].checked /\ turn[u][1].missing = {}) =>
          /\ ~turn[u][1].raised
          /\ turn[u][1].posts = 1
          /\ turn[u][1].pc = "idle" => turn[u][1].reply.kind \in {"summary", "webhook_error"}
          /\ \A k \in NumericKeys :
                IntRaises(conversation_states[u].data[k]) => turn[u][1].payload[k] = PyInt(0)

\* C7: the webhook is called exactly once in a turn that moves the session
\* into Complete, and in no other turn.
C7_SubmitOncePerCompletion ==
    \A u \in Active :
       /\ turn[u][1].posts <= 1
       /\ turn[u][1].posts = 1 <=>
             (turn[u][1].branch = "collecting" /\ conversation_states[u].phase = "complete")

\* C8: no turn ends with an uncaught exception: every turn that has ended
\* has yielded a reply, and the phase is one of the three.
C8_EveryTurnReplies ==
    \A u \in Active :
       /\ ~turn[u][1].raised
       /\ (turn[u][1].pc = "idle" /\ turn[u][1].branch # "none") =>
             turn[u][1].reply.kind # "none"
       /\ conversation_states[u].phase \in {"intro", "collecting", "complete"}

\* The fallback priority order.
FallbackOrder ==
    <<"program_name", "program_manager", "program_manager_email", "sponsor_name",
      "overall_status", "status_commentary", "key_accomplishments",
      "upcoming_milestones", "total_budget", "budget_spent",
      "open_risks", "open_issues", "open_assumptions", "open_dependencies">>

\* The canned question of each field of the order.
CannedQuestion(f) ==
    CASE f = "program_name" -> Q_program_name
      [] f = "program_manager" -> Q_program_manager
      [] f = "program_manager_email" -> Q_program_manager_email
      [] f = "sponsor_name" -> Q_sponsor_name
      [] f = "overall_status" -> Q_overall_status
      [] f = "status_commentary" -> Q_status_commentary
      [] f = "key_accomplishments" -> Q_key_accomplishments
      [] f = "upcoming_milestones" -> Q_upcoming_milestones
      [] f = "total_budget" -> Q_total_budget
      [] f = "budget_spent" -> Q_budget_spent
      [] f = "open_risks" -> Q_open_risks
      [] f = "open_issues" -> Q_open_issues
      [] f = "open_assumptions" -> Q_open_assumptions
      [] f = "open_dependencies" -> Q_open_dependencies

\* The positions of the order whose field is not in data.
AbsentInOrder(data) == {i \in 1..Len(FallbackOrder) : ~Has(data, FallbackOrder[i])}

FirstAbsent(data) ==
    FallbackOrder[CHOOSE i \in AbsentInOrder(data) : \A j \in AbsentInOrder(data) : i <= j]

M_0 == <<"0">>

M_5_risks == <<"5"," ","r","i","s","k","s">>

M_10 == <<"1","0">>

M_none == <<"n","o","n","e">>

\* The pattern extractor runs for u under the question about open risks.
RiskStep(u) ==
    /\ PatternStep(u)
    /\ conversation_states[u].current_question = PyStr(Q_model_risks)

\* C10 as stated: under the question about open risks, "0" sets open_risks to
\* 0, "5 risks" sets it to 5, and "10" leaves an open_risks of 5 at 5.
C10_NumberKeepsSetCount ==
    [][\A u \in Active :
          RiskStep(u) =>
             LET before == conversation_states[u].data["open_risks"]
                 after  == conversation_states'[u].data["open_risks"]
                 msg    == turn'[u][1].message
             IN  /\ msg = M_0 => after = PyInt(0)
                 /\ msg = M_5_risks => after = PyInt(5)
                 /\ (msg = M_10 /\ before = PyInt(5)) => after = PyInt(5)]_vars

\* C10 as amended: under the question about open risks, "0" sets open_risks
\* to 0, "5 risks" sets it to 5, and "10" sets an open_risks of 5 to 10; only
\* a "none" answer leaves a count that is already set.
C10_NumberOverwritesCount ==
    [][\A u \in Active :
          RiskStep(u) =>
             LET before == conversation_states[u].data["open_risks"]
                 after  == conversation_states'[u].data["open_risks"]
                 msg    == turn'[u][1].message
             IN  /\ msg = M_0 => after = PyInt(0)
                 /\ msg = M_5_risks => after = PyInt(5)
                 /\ (msg = M_10 /\ before = PyInt(5)) => after = PyInt(10)
                 /\ (msg = M_none /\ before = PyInt(5)) => after = PyInt(5)]_vars

\* "10" has just been extracted under the question about open risks in a
\* session whose open_risks was 5.
C10_Witness ==
    \E u \in Active :
       /\ turn[u][1].pc = "model"
       /\ turn[u][1].message = M_10
       /\ turn[u][1].prior["open_risks"] = PyInt(5)
       /\ conversation_states[u].current_question = PyStr(Q_model_risks)
       /\ conversation_states[u].data["open_risks"] = PyInt(10)

\* The step is the return of client.post in a turn of u.
WebhookStep(u) == turn[u][1].pc = "webhook" /\ turn'[u][1].pc # "webhook"

\* C11: the submission succeeds if and only if the one POST came to status
\* 200, and no outcome of the POST raises; on a failure the turn replies with
\* the error text, the session stays in Complete with its data and nothing is
\* posted again, and the next message of the user restarts: data as in a new
\* session, phase Collecting, the welcome text, no POST.
C11_WebhookFailure ==
    [][\A u \in Active :
          /\ WebhookStep(u) =>
                LET t == turn'[u][1]
                IN  /\ t.pc = "idle" /\ ~t.raised /\ t.posts = 1
                    /\ t.reply.kind = "summary" <=> t.response = "200"
                    /\ t.response # "200" =>
                          /\ t.reply = Reply("webhook_error", Absent)
                          /\ conversation_states'[u] = conversation_states[u]
                          /\ conversation_states'[u].phase = "complete"
          /\ (turn[u][1].reply.kind = "webhook_error" /\ turn'[u] # turn[u]) =>
                /\ turn'[u][1].branch = "complete"
                /\ turn'[u][1].reply = Reply("welcome", WELCOME)
                /\ turn'[u][1].pc = "idle" /\ turn'[u][1].posts = 0
                /\ conversation_states'[u].data = InitData
                /\ conversation_states'[u].phase = "collecting"]_vars

\* The POST came to status 500: the error text was the reply and the session
\* is in Complete.
C11_Witness ==
    \E u \in Active :
       /\ turn[u][1].response = "500"
       /\ turn[u][1].posts = 1
       /\ turn[u][1].reply = Reply("webhook_error", Absent)
       /\ conversation_states[u].phase = "complete"

\* A session that was created and has received its first message.
FreshSession == handle_intro(AppendHistory(NewSession))

\* C13: after a restart from Complete current_question is None as in a
\* session that has just received its first message, and the pattern
\* extractor makes of the first message of the new cycle what it makes of
\* it in such a session: no field is set from the question of the cycle
\* before.
C13_RestartForgetsQuestion ==
    [][\A u \in Active :
          (turn[u][1].branch = "complete" /\ PatternStep(u)) =>
             /\ conversation_states[u].current_question = PyNone
             /\ conversation_states'[u].data =
                   extract_simple_data(FreshSession, turn'[u][1].message)]_vars

\* C18: a Collecting turn that stays in Collecting replies with a question
\* and leaves that text in current_question; a Collecting turn that reaches
\* Complete, an Intro turn and a restart turn leave current_question as it
\* was.
C18_QuestionIsTheOneSent ==
    [][\A u \in Users :
          /\ (MergeStep(u) /\ conversation_states'[u].phase = "collecting") =>
                /\ turn'[u][1].reply.kind = "question"
                /\ conversation_states'[u].current_question = turn'[u][1].reply.text
          /\ (MergeStep(u) /\ conversation_states'[u].phase = "complete") =>
                conversation_states'[u].current_question =
                   conversation_states[u].current_question
          /\ (turn'[u] # turn[u] /\ turn'[u][1].branch \in {"intro", "complete"}) =>
                conversation_states'[u].current_question = StateOf(u).current_question]_vars

(***************************************************************************)
(* A second specification: the turns of one user whose messages are budget *)
(* figures and a bare number, with a model that fails or returns the       *)
(* people or the progress fields, so that the canned questions about the   *)
(* status and the budget are asked.                                        *)
(***************************************************************************)
M_budget_500 == <<"b","u","d","g","e","t"," ","5","0","0">>

M_700_200 == <<"7","0","0"," ","2","0","0">>

M_total_900_300 == <<"t","o","t","a","l"," ","9","0","0"," ","3","0","0">>

AnswerMessages ==
    {<<"h","e","l","l","o"," ">>, M_budget_500, M_700_200, M_total_900_300, M_10}

Q_model_budget == <<"W","h","a","t"," ","i","s"," ","t","h","e"," ","b","u","d","g","e","t","?">>

\* The first four fields of the fallback order.
ED_people ==
    ED("program_name" :> PyStr(<<"Z","e","u","s">>) @@
       "program_manager" :> PyStr(<<"A","n","n">>) @@
       "program_manager_email" :> PyStr(<<"a","@","b",".","i","o">>) @@
       "sponsor_name" :> PyStr(<<"B","o","b">>))

\* The next four fields of the fallback order.
ED_progress ==
    ED("overall_status" :> PyStr(L_On_Track) @@
       "status_commentary" :> PyStr(<<"s","l","o","w">>) @@
       "key_accomplishments" :> PyStr(<<"d","e","s","i","g","n">>) @@
       "upcoming_milestones" :> PyStr(<<"l","a","u","n","c","h">>))

AnswerOutcomes ==
    {[NoOutcome EXCEPT !.kind = "error"],
     Extraction(ED_people, PyStr(Q_model_budget)),
     Extraction(ED_progress, PyStr(Q_model_budget))}

NextAnswers ==
    \/ \E u \in SpecUsers, k \in FirstSlot, raw \in AnswerMessages : IntroTurn(u, k, raw)
    \/ \E u \in SpecUsers, k \in FirstSlot, raw \in AnswerMessages : CollectingTurn(u, k, raw)
    \/ \E u \in SpecUsers, k \in FirstSlot, outcome \in AnswerOutcomes : ModelReturns(u, k, outcome)

SpecAnswers == Init /\ [][NextAnswers]_vars

\* The pattern extractor runs for u and its budget rule applies: the question
\* or the message mentions budget and the message holds a number.
BudgetStep(u) ==
    /\ PatternStep(u)
    /\ \/ Contains(CurrentQ(conversation_states[u]), K_budget)
       \/ Contains(Lower(turn'[u][1].message), K_budget)
    /\ FindAllNumbers(RemoveCommas(turn'[u][1].message), 1) # <<>>

\* What the budget rule as stated makes of field f, given the numbers of the
\* message: the number at position i unless f is already set.
BudgetAssigned(data, f, nums, i) ==
    IF Len(nums) >= i /\ ~Has(data, f) THEN PyInt(nums[i]) ELSE data[f]

\* C12 as stated: when the budget rule applies, the first number goes to
\* total_budget unless it is set and a second number goes to budget_spent
\* unless it is set, whether or not total_budget was set.
C12_BudgetSpentIndependent ==
    [][\A u \in Active :
          BudgetStep(u) =>
             LET data == conversation_states[u].data
                 nums == FindAllNumbers(RemoveCommas(turn'[u][1].message), 1)
             IN  /\ conversation_states'[u].data["total_budget"] =
                       BudgetAssigned(data, "total_budget", nums, 1)
                 /\ conversation_states'[u].data["budget_spent"] =
                       BudgetAssigned(data, "budget_spent", nums, 2)]_vars

\* C12 as amended: the two assignments are made only when the message
\* contains "total" or total_budget is not set; when total_budget is set and
\* the message does not contain "total", neither field changes.
C12_BudgetNeedsTotal ==
    [][\A u \in Active :
          BudgetStep(u) =>
             LET data == conversation_states[u].data
                 msg  == turn'[u][1].message
                 nums == FindAllNumbers(RemoveCommas(msg), 1)
                 open == Contains(Lower(msg), K_total) \/ ~Has(data, "total_budget")
             IN  /\ conversation_states'[u].data["total_budget"] =
                       IF open THEN BudgetAssigned(data, "total_budget", nums, 1)
                       ELSE data["total_budget"]
                 /\ conversation_states'[u].data["budget_spent"] =
                       IF open THEN BudgetAssigned(data, "budget_spent", nums, 2)
                       ELSE data["budget_spent"]]_vars

\* "700 200" has just been extracted under the canned question about the
\* budget spent, with total_budget set: budget_spent is still not set.
C12_Witness ==
    \E u \in Active :
       /\ turn[u][1].pc = "model"
       /\ turn[u][1].message = M_700_200
       /\ conversation_states[u].current_question = PyStr(Q_budget_spent)
       /\ Has(turn[u][1].prior, "total_budget")
       /\ ~Has(turn[u][1].prior, "budget_spent")
       /\ ~Has(conversation_states[u].data, "budget_spent")

\* The canned questions of the fallback.
CannedQuestions == {PyStr(CannedQuestion(FallbackOrder[i])) : i \in 1..Len(FallbackOrder)}

\* The four RAID counts of the collected data.
RaidFields == {"open_risks", "open_issues", "open_assumptions", "open_dependencies"}

\* C15: when current_question is a canned question of the fallback, the
\* pattern extractor sets or changes a RAID count only if that question is
\* the canned question of that count.
C15_CannedQuestionFrame ==
    [][\A u \in Active :
          (PatternStep(u) /\ conversation_states[u].current_question \in CannedQuestions) =>
             \A f \in RaidFields :
                conversation_states'[u].data[f] # conversation_states[u].data[f] =>
                   conversation_states[u].current_question = PyStr(CannedQuestion(f))]_vars

(***************************************************************************)
(* A third specification: the model call fails on every turn and each user *)
(* answers the question asked with a valid answer for its field.  A user   *)
(* goes on answering: sent counts the messages up to MaxSent.              *)
(***************************************************************************)
\* What a user says before any question was asked.
Greetings == {<<"h","e","l","l","o"," ">>, <<"A","p","o","l","l","o">>}

\* Valid answers to the question q of the session.
AnswersTo(q) ==
    CASE q = PyStr(Q_program_name) -> {<<"A","p","o","l","l","o">>, <<"Z","e","u","s"," ","2">>}
      [] q = PyStr(Q_program_manager) -> {<<"J","a","n","e"," ","D","o","e">>}
      [] q = PyStr(Q_program_manager_email) -> {<<"j","a","n","e","@","x",".","c","o","m">>}
      [] q = PyStr(Q_sponsor_name) -> {<<"M","i","k","e">>}
      [] q = PyStr(Q_overall_status) -> {L_On_Track, <<"a","t"," ","r","i","s","k">>}
      [] q = PyStr(Q_status_commentary) -> {<<"l","a","t","e">>}
      [] q = PyStr(Q_key_accomplishments) -> {<<"k","i","c","k","o","f","f">>}
      [] q = PyStr(Q_upcoming_milestones) -> {<<"r","e","v","i","e","w">>}
      [] q = PyStr(Q_total_budget) -> {<<"5","0","0","0","0","0">>}
      [] q = PyStr(Q_budget_spent) -> {<<"2","0","0","0","0","0">>}
      [] q \in {PyStr(Q_open_risks), PyStr(Q_open_issues), PyStr(Q_open_assumptions),
                PyStr(Q_open_dependencies)} -> {<<"3">>}
      [] OTHER -> Greetings

\* The outcomes of a model call that fails.
FailureOutcomes == {outcome \in ModelOutcomes : IsFailure(outcome)}

\* u sends a message when the reply to the last one has come.
Answers(u, k) ==
    /\ \A j \in Slots : turn[u][j].pc = "idle"
    /\ sent' = [sent EXCEPT ![u] = IF @ < MaxSent THEN @ + 1 ELSE @]

AnswerIntro(u) == \E raw \in Greetings : Answers(u, 1) /\ Intro(u, 1, raw)

AnswerQuestion(u) ==
    \E raw \in AnswersTo(StateOf(u).current_question) : Answers(u, 1) /\ Collecting(u, 1, raw)

ModelFails(u) == \E outcome \in FailureOutcomes : ModelReturns(u, 1, outcome)

OutageTurns(u) == AnswerIntro(u) \/ AnswerQuestion(u) \/ ModelFails(u)

NextOutage ==
    \/ \E u \in Users : AnswerIntro(u)
    \/ \E u \in Users : AnswerQuestion(u)
    \/ \E u \in Users : ModelFails(u)

\* Every user goes on answering and every model call returns.
SpecOutage ==
    Init /\ [][NextOutage]_vars /\ \A u \in Users : WF_vars(OutageTurns(u))

\* C14: when the model call fails on every turn and the user answers every
\* canned question with a valid answer for its field, the session eventually
\* reaches Complete.
C14_FallbackReachesComplete ==
    \A u \in Users : <>(u \in Active /\ conversation_states[u].phase = "complete")

(***************************************************************************)
(* A fourth specification: one user who does not wait for the reply, so    *)
(* that a second turn starts while the first is suspended at the model     *)
(* call or at the POST.  Nothing in get_response keeps a second call for   *)
(* the same user_id from running.                                          *)
(***************************************************************************)
\* u sends a message and its turn takes the first slot that is free.
Free(u, k) ==
    /\ turn[u][k].pc = "idle"
    /\ \A j \in Slots : j < k => turn[u][j].pc # "idle"
    /\ sent[u] < MaxSent
    /\ sent' = [sent EXCEPT ![u] = @ + 1]

OverlapMessages == {<<"h","e","l","l","o"," ">>}

OverlapOutcomes ==
    {[NoOutcome EXCEPT !.kind = "error"],
     Extraction(ED_core, PyStr(Q_model_risks)),
     Extraction(ED_raid, PyStr(Q_model_risks))}

OverlapIntro(u, k, raw) == Free(u, k) /\ Intro(u, k, raw)

OverlapCollecting(u, k, raw) == Free(u, k) /\ Collecting(u, k, raw)

OverlapComplete(u, k, raw) == Free(u, k) /\ Complete(u, k, raw)

NextOverlap ==
    \/ \E u \in SpecUsers, k \in Slots, raw \in OverlapMessages : OverlapIntro(u, k, raw)
    \/ \E u \in SpecUsers, k \in Slots, raw \in OverlapMessages : OverlapCollecting(u, k, raw)
    \/ \E u \in SpecUsers, k \in Slots, raw \in OverlapMessages : OverlapComplete(u, k, raw)
    \/ \E u \in SpecUsers, k \in Slots, outcome \in OverlapOutcomes : ModelReturns(u, k, outcome)
    \/ \E u \in SpecUsers, k \in Slots, response \in WebhookOutcomes : WebhookReturns(u, k, response)

SpecOverlap == Init /\ [][NextOverlap]_vars

\* C16: when two turns of a user overlap, the collected data is still
\* submitted once: no two turns of the user have each called the webhook
\* with the same payload and wait for its answer at the same time.
C16_OverlapSubmitsOnce ==
    \A u \in Active :
       \A j, k \in Slots :
          (/\ j # k
           /\ turn[u][j].pc = "webhook" /\ turn[u][j].posts = 1
           /\ turn[u][k].pc = "webhook" /\ turn[u][k].posts = 1)
          => turn[u][j].payload # turn[u][k].payload

(***************************************************************************)
(* A fifth specification: two users, each waiting for its reply; their     *)
(* turns interleave at the model call and at the POST.                     *)
(***************************************************************************)
PairMessages == {<<"h","e","l","l","o"," ">>, M_5_risks}

NextPair ==
    \/ \E u \in Users, k \in FirstSlot, raw \in PairMessages : IntroTurn(u, k, raw)
    \/ \E u \in Users, k \in FirstSlot, raw \in PairMessages : CollectingTurn(u, k, raw)
    \/ \E u \in Users, k \in FirstSlot, raw \in PairMessages : CompleteTurn(u, k, raw)
    \/ \E u \in Users, k \in FirstSlot, outcome \in OverlapOutcomes : ModelReturns(u, k, outcome)
    \/ \E u \in Users, k \in FirstSlot, response \in WebhookOutcomes : WebhookReturns(u, k, response)

SpecPair == Init /\ [][NextPair]_vars

\* C17: a step of a turn of user a leaves the session of every other user b
\* as it is (its phase, data, current_question and history, and whether it
\* exists), and the turns and the count of messages of b too.
C17_SessionsIndependent ==
    [][\A a, b \in Users :
          (a # b /\ turn'[a] # turn[a]) =>
             /\ (b \in DOMAIN conversation_states') <=> (b \in Active)
             /\ b \in Active => conversation_states'[b] = conversation_states[b]
             /\ turn'[b] = turn[b]
             /\ sent'[b] = sent[b]]_vars

\* A turn of one user is suspended in the model call while a turn of the
\* other is suspended in the POST, and their sessions differ.
C17_Witness ==
    \E a, b \in Active :
       /\ a # b
       /\ turn[a][1].pc = "model"
       /\ turn[b][1].pc = "webhook"
       /\ conversation_states[a].phase = "collecting"
       /\ conversation_states[b].phase = "complete"
       /\ conversation_states[a].data # conversation_states[b].data

(***************************************************************************)
(* A sixth specification: two users, and a fault that writes a phase of    *)
(* no handler into a session between two turns.  The last branch of        *)
(* get_response then runs.                                                 *)
(***************************************************************************)
\* The phases get_response has a handler for.
Phases == {"intro", "collecting", "complete"}

START_OVER == PyStr(<<"I","'","m"," ","n","o","t"," ","s","u","r","e"," ","w","h","a","t"," ","t","o"," ","d","o","."," ","L","e","t","'","s"," ","s","t","a","r","t"," ","o","v","e","r","."," ","T","y","p","e"," ","'","h","e","l","l","o","'"," ","t","o"," ","b","e","g","i","n",".">>)

\* The else branch with the data reset as well.
start_over_resets(state) == [state EXCEPT !.phase = "intro", !.data = InitData]

\* The else branch of get_response: state["phase"] = "intro".
start_over(state) == [state EXCEPT !.phase = "intro"]

\* get_response for a phase that has no handler.
Unknown(u, k, raw) ==
    /\ StateOf(u).phase \notin Phases
    /\ conversation_states' = Store(u, start_over(AppendHistory(StateOf(u))))
    /\ turn' = [turn EXCEPT ![u][k] =
                  [Started(u, "unknown", Strip(raw)) EXCEPT
                      !.reply = Reply("start_over", START_OVER)]]

UnknownTurn(u, k, raw) == CanBegin(u, k) /\ Unknown(u, k, raw)

\* The fault: the phase of the session of u becomes a value that is not a
\* phase, while no turn of u runs.
Inject(u) ==
    /\ u \in Active
    /\ \A j \in Slots : turn[u][j].pc = "idle"
    /\ conversation_states[u].phase \in Phases
    /\ conversation_states' = [conversation_states EXCEPT ![u].phase = "corrupt"]
    /\ UNCHANGED <<turn, sent>>

InjectMessages == {<<"h","e","l","l","o"," ">>}

NextInject ==
    \/ \E u \in Users, k \in FirstSlot, raw \in InjectMessages : IntroTurn(u, k, raw)
    \/ \E u \in Users, k \in FirstSlot, raw \in InjectMessages : CollectingTurn(u, k, raw)
    \/ \E u \in Users, k \in FirstSlot, raw \in InjectMessages : CompleteTurn(u, k, raw)
    \/ \E u \in Users, k \in FirstSlot, raw \in InjectMessages : UnknownTurn(u, k, raw)
    \/ \E u \in Users, k \in FirstSlot, outcome \in OverlapOutcomes : ModelReturns(u, k, outcome)
    \/ \E u \in Users, k \in FirstSlot, response \in WebhookOutcomes : WebhookReturns(u, k, response)
    \/ \E u \in Users : Inject(u)

SpecInject == Init /\ [][NextInject]_vars

\* C19: a step of a turn that finds one of the three phases leaves one of
\* the three phases and is not the last branch of get_response, so that only
\* the fault brings a session to another phase; a turn that finds another
\* phase replies with the start-over text and sets the phase to intro, and
\* leaves the data, current_question and the sessions of the other users as
\* they were.
C19_UnknownPhase ==
    [][\A u \in Users :
          turn'[u] # turn[u] =>
             IF StateOf(u).phase \in Phases
             THEN /\ conversation_states'[u].phase \in Phases
                  /\ turn'[u][1].branch # "unknown"
                  /\ turn'[u][1].reply.kind # "start_over"
             ELSE /\ turn'[u][1].branch = "unknown"
                  /\ turn'[u][1].reply = Reply("start_over", START_OVER)
                  /\ turn'[u][1].pc = "idle" /\ ~turn'[u][1].raised
                  /\ conversation_states'[u].phase = "intro"
                  /\ conversation_states'[u].data = conversation_states[u].data
                  /\ conversation_states'[u].current_question =
                        conversation_states[u].current_question
                  /\ \A v \in Users \ {u} :
                        /\ (v \in DOMAIN conversation_states') <=> (v \in Active)
                        /\ v \in Active =>
                              conversation_states'[v] = conversation_states[v]]_vars

\* A turn found a phase that is none of the three in a session with collected
\* data and a question, while the other user has a session too: the reply was
\* the start-over text, the phase is intro and the data is still there.
C19_Witness ==
    \E u, v \in Active :
       /\ u # v
       /\ turn[u][1].branch = "unknown"
       /\ turn[u][1].reply = Reply("start_over", START_OVER)
       /\ conversation_states[u].phase = "intro"
       /\ Has(conversation_states[u].data, "open_risks")
       /\ conversation_states[u].current_question # PyNone
====
